---- MODULE Spec2Model ----
(***************************************************************************)
(* ValutaTrade Hub: the wallet (core/models.py), the buy/sell use cases    *)
(* (core/usecases.py) and the exchange-rate cache (cli/interface.py).      *)
(*                                                                         *)
(* Amounts, balances and rates are Python numbers; the model draws them    *)
(* from small ranges of integers, on which Python's float arithmetic is    *)
(* exact, and from the numbers next to 2^53, where a float holds only the  *)
(* even integers (see Big and fl).  Time is counted in minutes.            *)
(***************************************************************************)
EXTENDS Integers, Sequences, FiniteSets, TLC

VARIABLES
    wallet,           \* a Wallet object: [currency_code, balance]
    wres,             \* the last call on `wallet` and how it ended
    portfolios_data,  \* the portfolio store: a list of Portfolio.to_dict() records
    tres,             \* the last buy_currency / sell_currency call and how it ended
    rates_data,       \* the rate cache: key "FROM_TO" -> [rate, updated_at]
    rates_file,       \* data/rates.json as last written by save_json
    now,              \* datetime.now(), in minutes
    rres,             \* the last get_exchange_rate call and how it ended
    portfolios_file,  \* data/portfolios.json: [text, whole, size]
    procs,            \* the invocations of the program that run side by side
    registry,         \* _CURRENCY_REGISTRY: code -> Currency object
    cres,             \* the last call of core/currencies.py and how it ended
    pres              \* the last call on a Portfolio object and how it ended

vars == <<wallet, wres, portfolios_data, tres, rates_data, rates_file, now, rres,
          portfolios_file, procs, registry, cres, pres>>

----------------------------------------------------------------------------
(* Bounds of the model *)

MaxBalance == 10     \* calls that would take a balance above this are not made
MaxAmount == 5       \* amounts of wallet calls range over MinAmount..MaxAmount
MaxTradeBalance == 4 \* trades that would take a stored balance above this are not made
MaxTradeAmount == 2  \* amounts of trades range over MinAmount..MaxTradeAmount
MaxRate == 2         \* rates range over MinRate..MaxRate
MaxNow == 7          \* the clock stops here
FloatSpan == 8       \* balances next to 2^53 stay within this distance of it
MaxCodeLen == 6      \* currency codes have up to this many characters
MaxRegistrations == 3 \* register_currency is called at most this many times

MinAmount == 0 - 1
MinRate == 0 - 1

Currencies == {"USD", "BTC", "ETH"}

----------------------------------------------------------------------------
(* Python floats.  A float holds every integer below 2^53 and, from 2^53 to *)
(* 2^54, the even ones.  2^53 is beyond the 32-bit integers of TLC,         *)
(* so the integer Big stands for it: a number n below Big / 2 is the float  *)
(* n, and Big + d, for a small d, is the float 2^53 + d.  Sums, differences *)
(* and comparisons of such numbers, and their products with small numbers,  *)
(* are those of the floats they stand for.                                  *)

Big == 2 ^ 20

\* the float nearest to x, ties to the even significand: x itself below 2^53,
\* the nearest even integer from there on, the multiple of 4 at a tie
fl(x) ==
    IF x < Big
    THEN x
    ELSE CASE (x - Big) % 4 = 1 -> x - 1
           [] (x - Big) % 4 = 3 -> x + 1
           [] OTHER -> x

\* the numbers next to 2^53 a balance may take
NearBig(x) == Big - FloatSpan <= x /\ x <= Big + FloatSpan

\* the floats next to 2^53
FloatsNearBig == {x \in (Big - FloatSpan)..(Big + FloatSpan) : fl(x) = x}

----------------------------------------------------------------------------
(* core/exceptions.py and the built-in errors the code raises *)

NoError == [type |-> "none", available |-> 0, required |-> 0, code |-> "none"]

ValueError == [type |-> "ValueError", available |-> 0, required |-> 0, code |-> "none"]

InsufficientFundsError(available, required, code) ==
    [type |-> "InsufficientFundsError", available |-> available,
     required |-> required, code |-> code]

CurrencyNotFoundError(code) ==
    [type |-> "CurrencyNotFoundError", available |-> 0, required |-> 0, code |-> code]

Raised(r) == r.exc.type # "none"

----------------------------------------------------------------------------
(* core/models.py: Wallet *)

\* Wallet._validate_balance
validate_balance(amount) ==
    IF amount < 0
    THEN [exc |-> ValueError, value |-> amount]
    ELSE [exc |-> NoError, value |-> amount]

\* Wallet.__init__
Wallet(currency_code, balance) ==
    LET v == validate_balance(balance) IN
    IF Raised(v)
    THEN [exc |-> v.exc, wallet |-> [currency_code |-> currency_code, balance |-> 0]]
    ELSE [exc |-> NoError,
          wallet |-> [currency_code |-> currency_code, balance |-> v.value]]

\* Wallet.balance setter
set_balance(w, value) ==
    LET v == validate_balance(value) IN
    IF Raised(v)
    THEN [exc |-> v.exc, wallet |-> w]
    ELSE [exc |-> NoError, wallet |-> [w EXCEPT !.balance = v.value]]

\* Wallet.deposit
deposit(w, amount) ==
    IF amount <= 0
    THEN [exc |-> ValueError, wallet |-> w]
    ELSE set_balance(w, fl(w.balance + amount))

\* a withdrawal that pays out what is there when the amount exceeds the balance
withdraw_clamped(w, amount) ==
    IF amount <= 0
    THEN [exc |-> ValueError, wallet |-> w]
    ELSE IF amount > w.balance
         THEN set_balance(w, 0)
         ELSE set_balance(w, fl(w.balance - amount))

\* a withdrawal without the check of the funds, writing the field directly
withdraw_unguarded(w, amount) ==
    IF amount <= 0
    THEN [exc |-> ValueError, wallet |-> w]
    ELSE [exc |-> NoError, wallet |-> [w EXCEPT !.balance = fl(@ - amount)]]

\* Wallet.withdraw
withdraw(w, amount) ==
    IF amount <= 0
    THEN [exc |-> ValueError, wallet |-> w]
    ELSE IF amount > w.balance
         THEN [exc |-> InsufficientFundsError(w.balance, amount, w.currency_code),
               wallet |-> w]
         ELSE set_balance(w, fl(w.balance - amount))

\* Wallet.to_dict
Wallet_to_dict(w) == [currency_code |-> w.currency_code, balance |-> w.balance]

\* Wallet.from_dict
Wallet_from_dict(currency_code, data) == Wallet(currency_code, data.balance)

----------------------------------------------------------------------------
(* core/models.py: Portfolio.  An Optional value is a set of at most one   *)
(* element: {} is None.                                                    *)

Some(s) == CHOOSE x \in s : TRUE

\* Portfolio.get_wallet
get_wallet(portfolio, currency_code) ==
    IF currency_code \in DOMAIN portfolio.wallets
    THEN {portfolio.wallets[currency_code]}
    ELSE {}

\* an add_currency that replaces the wallet there is by an empty one
add_currency_reset(portfolio, currency_code) ==
    [exc |-> NoError,
     portfolio |-> [portfolio EXCEPT !.wallets =
                       (currency_code :> Wallet(currency_code, 0).wallet) @@ @]]

\* an add_currency that opens the wallet with something in it
add_currency_funded(portfolio, currency_code) ==
    IF currency_code \in DOMAIN portfolio.wallets
    THEN [exc |-> ValueError, portfolio |-> portfolio]
    ELSE [exc |-> NoError,
          portfolio |-> [portfolio EXCEPT !.wallets =
                            (currency_code :> Wallet(currency_code, 1).wallet) @@ @]]

\* Portfolio.add_currency
add_currency(portfolio, currency_code) ==
    IF currency_code \in DOMAIN portfolio.wallets
    THEN [exc |-> ValueError, portfolio |-> portfolio]
    ELSE [exc |-> NoError,
          portfolio |-> [portfolio EXCEPT !.wallets =
                            (currency_code :> Wallet(currency_code, 0).wallet) @@ @]]

\* a write through a wallet that empties the wallets beside it
put_wallet_sweeping(portfolio, w) ==
    [portfolio EXCEPT !.wallets =
        [code \in DOMAIN @ |->
            IF code = w.currency_code THEN w ELSE Wallet(code, 0).wallet]]

\* the wallet objects are shared between the portfolio and the caller:
\* a call on a wallet of the portfolio changes the portfolio
put_wallet(portfolio, w) ==
    [portfolio EXCEPT !.wallets = [@ EXCEPT ![w.currency_code] = w]]

\* a dump that writes the wallets without what they hold
Portfolio_to_dict_blank(portfolio) ==
    [user_id |-> portfolio.user_id,
     wallets |-> [code \in DOMAIN portfolio.wallets |->
                     [currency_code |-> portfolio.wallets[code].currency_code,
                      balance |-> 0]]]

\* Portfolio.to_dict
Portfolio_to_dict(portfolio) ==
    [user_id |-> portfolio.user_id,
     wallets |-> [code \in DOMAIN portfolio.wallets |->
                     Wallet_to_dict(portfolio.wallets[code])]]

\* Portfolio.from_dict
Portfolio_from_dict(data) ==
    LET made == [code \in DOMAIN data.wallets |->
                    Wallet_from_dict(code, data.wallets[code])] IN
    IF \E code \in DOMAIN made : Raised(made[code])
    THEN [exc |-> ValueError, value |-> {}]
    ELSE [exc |-> NoError,
          value |-> {[user_id |-> data.user_id,
                      wallets |-> [code \in DOMAIN made |-> made[code].wallet]]}]

----------------------------------------------------------------------------
(* core/currencies.py.  A code is a sequence of characters: the letters A  *)
(* to Z and a to z, and characters without case (digits, punctuation,      *)
(* space, tab).                                                            *)

Capitals ==
    <<"A", "B", "C", "D", "E", "F", "G", "H", "I", "J", "K", "L", "M",
      "N", "O", "P", "Q", "R", "S", "T", "U", "V", "W", "X", "Y", "Z">>

Smalls ==
    <<"a", "b", "c", "d", "e", "f", "g", "h", "i", "j", "k", "l", "m",
      "n", "o", "p", "q", "r", "s", "t", "u", "v", "w", "x", "y", "z">>

UpperChars == {Capitals[i] : i \in DOMAIN Capitals}

LowerChars == {Smalls[i] : i \in DOMAIN Smalls}

\* str.upper() of one character
upper_char(ch) ==
    IF ch \in LowerChars
    THEN Capitals[CHOOSE i \in DOMAIN Smalls : Smalls[i] = ch]
    ELSE ch

\* str.upper()
upper(code) == [i \in DOMAIN code |-> upper_char(code[i])]

\* str.isupper(): there is a cased character and no cased character is small
isupper(code) ==
    /\ \E i \in DOMAIN code : code[i] \in UpperChars \cup LowerChars
    /\ \A i \in DOMAIN code : code[i] \notin LowerChars

\* the rule the message of the ValueError states: 2 to 5 capital letters
valid_code_letters(code) ==
    /\ Len(code) >= 2
    /\ Len(code) <= 5
    /\ \A i \in DOMAIN code : code[i] \in UpperChars

\* Currency.__init__, the validation of the code
valid_code(code) ==
    ~(\/ code = <<>>
      \/ Len(code) < 2
      \/ Len(code) > 5
      \/ \E i \in DOMAIN code : code[i] = " "
      \/ ~isupper(code))

\* Currency.__init__ with a name that passes
Currency(name, code) ==
    IF valid_code(code)
    THEN [exc |-> NoError, value |-> {[name |-> name, code |-> code]}]
    ELSE [exc |-> ValueError, value |-> {}]

\* _CURRENCY_REGISTRY = {}
EmptyRegistry == [code \in {} |-> 0]

\* the class CurrencyNotFoundError this module defines for itself: a plain
\* Exception that carries its message and nothing else (no attribute `code`);
\* it is not the class of the same name of core/exceptions.py
currencies_CurrencyNotFoundError(message) ==
    [type |-> "CurrencyNotFoundError", module |-> "core.currencies",
     message |-> message]

\* a registration that keeps the entry a code already has
register_currency_keep(reg, currency) == reg @@ (currency.code :> currency)

\* register_currency
register_currency(reg, currency) == (currency.code :> currency) @@ reg

\* get_currency
get_currency(reg, code) ==
    LET key == upper(code) IN
    IF key \notin DOMAIN reg
    THEN [exc |-> currencies_CurrencyNotFoundError(
                      <<"Currency with code '", key, "' not found.">>),
          value |-> {}]
    ELSE [exc |-> NoError, value |-> {reg[key]}]

\* the registry after the registrations of the example at the end of the module
Registry ==
    LET seed(name, code) == Some(Currency(name, code).value) IN
    register_currency(
        register_currency(
            register_currency(
                register_currency(EmptyRegistry, seed("US Dollar", <<"U", "S", "D">>)),
                seed("Euro", <<"E", "U", "R">>)),
            seed("Bitcoin", <<"B", "T", "C">>)),
        seed("Ethereum", <<"E", "T", "H">>))

\* the characters of the codes the trades of the model use
Spell(code) ==
    CASE code = "USD" -> <<"U", "S", "D">>
      [] code = "BTC" -> <<"B", "T", "C">>
      [] code = "ETH" -> <<"E", "T", "H">>
      [] code = "DOGE" -> <<"D", "O", "G", "E">>

----------------------------------------------------------------------------
(* core/usecases.py *)

\* the place of the first record of user_id in the store, 0 when there is none
first_index(store, user_id) ==
    LET S == {i \in 1..Len(store) : store[i].user_id = user_id} IN
    IF S = {} THEN 0 ELSE CHOOSE i \in S : \A j \in S : i <= j

\* a lookup that falls back on the first record of the store
show_portfolio_first(store, user_id) ==
    LET i == first_index(store, user_id) IN
    IF i = 0 THEN Portfolio_from_dict(store[1]) ELSE Portfolio_from_dict(store[i])

\* show_portfolio
show_portfolio(store, user_id) ==
    LET i == first_index(store, user_id) IN
    IF i = 0 THEN [exc |-> NoError, value |-> {}] ELSE Portfolio_from_dict(store[i])

\* f"{from_curr}_{to_curr}"
Key(from_curr, to_curr) == from_curr \o "_" \o to_curr

\* a store update that overwrites every record of the store
store_update_all(store, user_id, portfolio) ==
    [store |-> [i \in 1..Len(store) |-> Portfolio_to_dict(portfolio)],
     writes |-> [i \in 1..Len(store) |-> i]]

\* the loop that ends buy_currency and sell_currency: the first record of
\* user_id is replaced, `writes` lists the places assigned
store_update(store, user_id, portfolio) ==
    LET i == first_index(store, user_id) IN
    IF i = 0
    THEN [store |-> store, writes |-> <<>>]
    ELSE [store |-> [store EXCEPT ![i] = Portfolio_to_dict(portfolio)],
          writes |-> <<i>>]

\* how a call of buy_currency or sell_currency ends: ret is "True", "False" or
\* "raise", line the line of the source that ended it
Ended(ret, exc, line, store, writes) ==
    [ret |-> ret, exc |-> exc, line |-> line, store |-> store, writes |-> writes]

\* buy_currency: usd_cost = amount * rate
usd_cost(amount, rate) == fl(amount * rate)

\* sell_currency: usd_revenue = amount * rate
usd_revenue(amount, rate) == fl(amount * rate)

\* a purchase that wants more USD than it costs
buy_currency_strict(store, rates, user_id, currency, amount) ==
    LET found == show_portfolio(store, user_id) IN
    IF Raised(found) THEN Ended("raise", found.exc, 72, store, <<>>)
    ELSE IF found.value = {} THEN Ended("False", NoError, 74, store, <<>>)
    ELSE
    LET portfolio == Some(found.value)
        rate_key == Key(currency, "USD")
    IN
    IF rate_key \notin DOMAIN rates THEN Ended("False", NoError, 79, store, <<>>)
    ELSE
    LET rate == rates[rate_key].rate
        cost == usd_cost(amount, rate)
        usd_wallet == get_wallet(portfolio, "USD")
    IN
    IF usd_wallet = {} \/ Some(usd_wallet).balance <= cost
    THEN Ended("False", NoError, 89, store, <<>>)
    ELSE
    LET debit == withdraw(Some(usd_wallet), cost) IN
    IF Raised(debit) THEN Ended("raise", debit.exc, 93, store, <<>>)
    ELSE
    LET debited == put_wallet(portfolio, debit.wallet)
        added == IF currency \notin DOMAIN debited.wallets
                 THEN add_currency(debited, currency)
                 ELSE [exc |-> NoError, portfolio |-> debited]
    IN
    IF Raised(added) THEN Ended("raise", added.exc, 98, store, <<>>)
    ELSE
    LET target_wallet == Some(get_wallet(added.portfolio, currency))
        credit == deposit(target_wallet, amount)
    IN
    IF Raised(credit) THEN Ended("raise", credit.exc, 100, store, <<>>)
    ELSE
    LET credited == put_wallet(added.portfolio, credit.wallet)
        saved == store_update(store, user_id, credited)
    IN  Ended("True", NoError, 109, saved.store, saved.writes)

\* a purchase on credit: no check of the funds, the cost taken off the balance
buy_currency_on_credit(store, rates, user_id, currency, amount) ==
    LET found == show_portfolio(store, user_id) IN
    IF Raised(found) THEN Ended("raise", found.exc, 72, store, <<>>)
    ELSE IF found.value = {} THEN Ended("False", NoError, 74, store, <<>>)
    ELSE
    LET portfolio == Some(found.value)
        rate_key == Key(currency, "USD")
    IN
    IF rate_key \notin DOMAIN rates THEN Ended("False", NoError, 79, store, <<>>)
    ELSE
    LET rate == rates[rate_key].rate
        cost == usd_cost(amount, rate)
        usd_wallet == get_wallet(portfolio, "USD")
    IN
    IF usd_wallet = {}
    THEN Ended("False", NoError, 89, store, <<>>)
    ELSE
    LET debit == [exc |-> NoError,
                  wallet |-> [Some(usd_wallet) EXCEPT !.balance = fl(@ - cost)]]
    IN
    IF Raised(debit) THEN Ended("raise", debit.exc, 93, store, <<>>)
    ELSE
    LET debited == put_wallet(portfolio, debit.wallet)
        added == IF currency \notin DOMAIN debited.wallets
                 THEN add_currency(debited, currency)
                 ELSE [exc |-> NoError, portfolio |-> debited]
    IN
    IF Raised(added) THEN Ended("raise", added.exc, 98, store, <<>>)
    ELSE
    LET target_wallet == Some(get_wallet(added.portfolio, currency))
        credit == deposit(target_wallet, amount)
    IN
    IF Raised(credit) THEN Ended("raise", credit.exc, 100, store, <<>>)
    ELSE
    LET credited == put_wallet(added.portfolio, credit.wallet)
        saved == store_update(store, user_id, credited)
    IN  Ended("True", NoError, 109, saved.store, saved.writes)

\* buy_currency
buy_currency(store, rates, user_id, currency, amount) ==
    LET found == show_portfolio(store, user_id) IN
    IF Raised(found) THEN Ended("raise", found.exc, 72, store, <<>>)
    ELSE IF found.value = {} THEN Ended("False", NoError, 74, store, <<>>)
    ELSE
    LET portfolio == Some(found.value)
        rate_key == Key(currency, "USD")
    IN
    IF rate_key \notin DOMAIN rates THEN Ended("False", NoError, 79, store, <<>>)
    ELSE
    LET rate == rates[rate_key].rate
        cost == usd_cost(amount, rate)
        usd_wallet == get_wallet(portfolio, "USD")
    IN
    IF usd_wallet = {} \/ Some(usd_wallet).balance < cost
    THEN Ended("False", NoError, 89, store, <<>>)
    ELSE
    LET debit == withdraw(Some(usd_wallet), cost) IN
    IF Raised(debit) THEN Ended("raise", debit.exc, 93, store, <<>>)
    ELSE
    LET debited == put_wallet(portfolio, debit.wallet)
        added == IF currency \notin DOMAIN debited.wallets
                 THEN add_currency(debited, currency)
                 ELSE [exc |-> NoError, portfolio |-> debited]
    IN
    IF Raised(added) THEN Ended("raise", added.exc, 98, store, <<>>)
    ELSE
    LET target_wallet == Some(get_wallet(added.portfolio, currency))
        credit == deposit(target_wallet, amount)
    IN
    IF Raised(credit) THEN Ended("raise", credit.exc, 100, store, <<>>)
    ELSE
    LET credited == put_wallet(added.portfolio, credit.wallet)
        saved == store_update(store, user_id, credited)
    IN  Ended("True", NoError, 109, saved.store, saved.writes)

\* a sale that writes the store after the debit and again after the credit
sell_currency_write_through(store, rates, user_id, currency, amount) ==
    LET found == show_portfolio(store, user_id) IN
    IF Raised(found) THEN Ended("raise", found.exc, 124, store, <<>>)
    ELSE IF found.value = {} THEN Ended("False", NoError, 126, store, <<>>)
    ELSE
    LET portfolio == Some(found.value)
        wallet_sold == get_wallet(portfolio, currency)
    IN
    IF wallet_sold = {} \/ Some(wallet_sold).balance < amount
    THEN Ended("False", NoError, 131, store, <<>>)
    ELSE
    LET rate_key == Key(currency, "USD") IN
    IF rate_key \notin DOMAIN rates THEN Ended("False", NoError, 136, store, <<>>)
    ELSE
    LET rate == rates[rate_key].rate
        revenue == usd_revenue(amount, rate)
        debit == withdraw(Some(wallet_sold), amount)
    IN
    IF Raised(debit) THEN Ended("raise", debit.exc, 143, store, <<>>)
    ELSE
    LET debited == put_wallet(portfolio, debit.wallet)
        early == store_update(store, user_id, debited)
        added == IF get_wallet(debited, "USD") # {}
                 THEN [exc |-> NoError, portfolio |-> debited]
                 ELSE add_currency(debited, "USD")
        usd_wallet == Some(get_wallet(added.portfolio, "USD"))
        credit == deposit(usd_wallet, revenue)
    IN
    IF Raised(credit)
    THEN Ended("raise", credit.exc,
               IF get_wallet(debited, "USD") # {} THEN 148 ELSE 152,
               early.store, early.writes)
    ELSE
    LET credited == put_wallet(added.portfolio, credit.wallet)
        saved == store_update(early.store, user_id, credited)
    IN  Ended("True", NoError, 160, saved.store, early.writes \o saved.writes)

\* sell_currency
sell_currency(store, rates, user_id, currency, amount) ==
    LET found == show_portfolio(store, user_id) IN
    IF Raised(found) THEN Ended("raise", found.exc, 124, store, <<>>)
    ELSE IF found.value = {} THEN Ended("False", NoError, 126, store, <<>>)
    ELSE
    LET portfolio == Some(found.value)
        wallet_sold == get_wallet(portfolio, currency)
    IN
    IF wallet_sold = {} \/ Some(wallet_sold).balance < amount
    THEN Ended("False", NoError, 131, store, <<>>)
    ELSE
    LET rate_key == Key(currency, "USD") IN
    IF rate_key \notin DOMAIN rates THEN Ended("False", NoError, 136, store, <<>>)
    ELSE
    LET rate == rates[rate_key].rate
        revenue == usd_revenue(amount, rate)
        debit == withdraw(Some(wallet_sold), amount)
    IN
    IF Raised(debit) THEN Ended("raise", debit.exc, 143, store, <<>>)
    ELSE
    LET debited == put_wallet(portfolio, debit.wallet)
        added == IF get_wallet(debited, "USD") # {}
                 THEN [exc |-> NoError, portfolio |-> debited]
                 ELSE add_currency(debited, "USD")
    IN
    IF Raised(added) THEN Ended("raise", added.exc, 150, store, <<>>)
    ELSE
    LET usd_wallet == Some(get_wallet(added.portfolio, "USD"))
        credit == deposit(usd_wallet, revenue)
    IN
    IF Raised(credit)
    THEN Ended("raise", credit.exc,
               IF get_wallet(debited, "USD") # {} THEN 148 ELSE 152, store, <<>>)
    ELSE
    LET credited == put_wallet(added.portfolio, credit.wallet)
        saved == store_update(store, user_id, credited)
    IN  Ended("True", NoError, 160, saved.store, saved.writes)

----------------------------------------------------------------------------
(* cli/interface.py: the rate cache.  A timestamp string is a record:      *)
(* [iso |-> TRUE, at |-> t] is datetime.isoformat() of minute t, and a     *)
(* record with iso = FALSE is a string that is no ISO timestamp.           *)

MaxAgeMinutes == 5

isoformat(t) == [iso |-> TRUE, at |-> t]

Malformed == [iso |-> FALSE, at |-> 0]

\* datetime.fromisoformat
fromisoformat(s) ==
    IF s.iso THEN [exc |-> NoError, value |-> s.at] ELSE [exc |-> ValueError, value |-> 0]

\* a freshness test that excludes the end of the window
is_rate_fresh_strict(updated_at_str, max_age_minutes, clock) ==
    LET updated_at == fromisoformat(updated_at_str) IN
    IF Raised(updated_at) THEN FALSE
    ELSE clock - updated_at.value < max_age_minutes

\* is_rate_fresh, with datetime.now() = clock
is_rate_fresh(updated_at_str, max_age_minutes, clock) ==
    LET updated_at == fromisoformat(updated_at_str) IN
    IF Raised(updated_at) THEN FALSE
    ELSE clock - updated_at.value <= max_age_minutes

\* fetch_rate_from_parser: mock_rates is the table of the Parser Service,
\* key -> rate; a key it does not hold is a failed request
fetch_rate_from_parser(mock_rates, from_curr, to_curr, clock) ==
    LET key == Key(from_curr, to_curr) IN
    IF key \in DOMAIN mock_rates
    THEN {[rate |-> mock_rates[key], updated_at |-> isoformat(clock)]}
    ELSE {}

\* how a call of get_exchange_rate ends: value is the entry returned ({} is
\* None), rates the cache after the call, fetched whether the Parser Service
\* was called, saves the number of writes of data/rates.json
Answered(value, rates, fetched, saves) ==
    [value |-> value, rates |-> rates, fetched |-> fetched, saves |-> saves]

\* a lookup that hands out the cached entry when the refresh fails
get_exchange_rate_fallback(rates, mock_rates, from_curr, to_curr, clock) ==
    LET key == Key(from_curr, to_curr) IN
    IF key \in DOMAIN rates /\ is_rate_fresh(rates[key].updated_at, MaxAgeMinutes, clock)
    THEN Answered({rates[key]}, rates, FALSE, 0)
    ELSE
    LET new_rate == fetch_rate_from_parser(mock_rates, from_curr, to_curr, clock) IN
    IF new_rate # {}
    THEN Answered(new_rate, (key :> Some(new_rate)) @@ rates, TRUE, 1)
    ELSE Answered(IF key \in DOMAIN rates THEN {rates[key]} ELSE {}, rates, TRUE, 0)

\* a lookup that refreshes the entry on every call
get_exchange_rate_eager(rates, mock_rates, from_curr, to_curr, clock) ==
    LET key == Key(from_curr, to_curr)
        new_rate == fetch_rate_from_parser(mock_rates, from_curr, to_curr, clock)
    IN
    IF new_rate # {}
    THEN Answered(new_rate, (key :> Some(new_rate)) @@ rates, TRUE, 1)
    ELSE IF key \in DOMAIN rates
              /\ is_rate_fresh(rates[key].updated_at, MaxAgeMinutes, clock)
         THEN Answered({rates[key]}, rates, TRUE, 0)
         ELSE Answered({}, rates, TRUE, 0)

\* a refresh that also writes the fetched entry under the reversed pair
get_exchange_rate_both_ways(rates, mock_rates, from_curr, to_curr, clock) ==
    LET key == Key(from_curr, to_curr) IN
    IF key \in DOMAIN rates /\ is_rate_fresh(rates[key].updated_at, MaxAgeMinutes, clock)
    THEN Answered({rates[key]}, rates, FALSE, 0)
    ELSE
    LET new_rate == fetch_rate_from_parser(mock_rates, from_curr, to_curr, clock) IN
    IF new_rate # {}
    THEN Answered(new_rate,
                  (key :> Some(new_rate)) @@ (Key(to_curr, from_curr) :> Some(new_rate))
                      @@ rates,
                  TRUE, 1)
    ELSE Answered({}, rates, TRUE, 0)

\* a lookup that drops the entry it could not refresh
get_exchange_rate_evict(rates, mock_rates, from_curr, to_curr, clock) ==
    LET key == Key(from_curr, to_curr) IN
    IF key \in DOMAIN rates /\ is_rate_fresh(rates[key].updated_at, MaxAgeMinutes, clock)
    THEN Answered({rates[key]}, rates, FALSE, 0)
    ELSE
    LET new_rate == fetch_rate_from_parser(mock_rates, from_curr, to_curr, clock) IN
    IF new_rate # {}
    THEN Answered(new_rate, (key :> Some(new_rate)) @@ rates, TRUE, 1)
    ELSE IF key \in DOMAIN rates
         THEN Answered({}, [k \in DOMAIN rates \ {key} |-> rates[k]], TRUE, 1)
         ELSE Answered({}, rates, TRUE, 0)

\* get_exchange_rate
get_exchange_rate(rates, mock_rates, from_curr, to_curr, clock) ==
    LET key == Key(from_curr, to_curr) IN
    IF key \in DOMAIN rates /\ is_rate_fresh(rates[key].updated_at, MaxAgeMinutes, clock)
    THEN Answered({rates[key]}, rates, FALSE, 0)
    ELSE
    LET new_rate == fetch_rate_from_parser(mock_rates, from_curr, to_curr, clock) IN
    IF new_rate # {}
    THEN Answered(new_rate, (key :> Some(new_rate)) @@ rates, TRUE, 1)
    ELSE Answered({}, rates, TRUE, 0)

----------------------------------------------------------------------------
(* cli/interface.py: load_json and save_json on data/portfolios.json.  The *)
(* file is [text, whole, size]: `text` is the store the last writer dumped, *)
(* `whole` tells whether the file is exactly the JSON of `text`, `size` is  *)
(* its length.                                                              *)

\* the length of json.dump(store): the records and keys being the same, it
\* grows with the number of wallets (codes of three letters, balances of one
\* digit)
RECURSIVE Size(_)
Size(store) ==
    IF store = <<>>
    THEN 0
    ELSE 1 + Cardinality(DOMAIN Head(store).wallets) + Size(Tail(store))

\* load_json: json.load of a file that is not whole raises
load_json(file) ==
    IF file.whole
    THEN [exc |-> NoError, data |-> file.text]
    ELSE [exc |-> ValueError, data |-> <<>>]

\* save_json, open(filepath, "w"): the file is cut to nothing
save_json_open(file) == [text |-> <<>>, whole |-> FALSE, size |-> 0]

\* save_json, json.dump and the close of the file: the dump goes to the start
\* of the file, over what is there; what another writer put beyond its end stays
save_json_close(file, data) ==
    IF file.size <= Size(data)
    THEN [text |-> data, whole |-> TRUE, size |-> Size(data)]
    ELSE [text |-> data, whole |-> FALSE, size |-> file.size]

\* the trade an invocation was started for
run_trade(job, store, rates) ==
    IF job.op = "buy"
    THEN buy_currency(store, rates, job.user_id, job.currency, job.amount)
    ELSE sell_currency(store, rates, job.user_id, job.currency, job.amount)

----------------------------------------------------------------------------
(* The state after construction *)

InitUSD == 4    \* the USD balance of user 1 in the initial store
InitBTC == 2    \* the BTC balance of user 2 in the initial store

UserIds == {1, 2, 3}    \* user 3 has no portfolio record

NoCall == [op |-> "none"]

Wallet0 == Wallet("USD", 0).wallet

\* the store after two registrations and the funding of the two portfolios
Store0 ==
    << [user_id |-> 1,
        wallets |-> ("USD" :> Wallet_to_dict(Wallet("USD", InitUSD).wallet))],
       [user_id |-> 2,
        wallets |-> ("BTC" :> Wallet_to_dict(Wallet("BTC", InitBTC).wallet))
                    @@ ("ETH" :> Wallet_to_dict(Wallet("ETH", 1).wallet))] >>

\* data/portfolios.json holding the initial store
File0 == [text |-> Store0, whole |-> TRUE, size |-> Size(Store0)]

\* the invocations, none started
ProcIds == {1, 2}

Procs0 == [p \in ProcIds |-> [pc |-> "idle", data |-> <<>>, job |-> NoCall]]

\* load_json of a missing file
EmptyRates == [key \in {} |-> 0]

Rates == MinRate..MaxRate

\* the rate tables a trade may find: BTC is priced at any rate or not at all,
\* ETH is not priced
TradeKeys == {Key("BTC", "USD")}

TradeTables ==
    UNION {[K -> {[rate |-> r, updated_at |-> isoformat(0)] : r \in Rates}] :
              K \in SUBSET TradeKeys}

\* the pairs get_exchange_rate is asked for
RateCurrencies == {"USD", "BTC"}

\* what the Parser Service may hold for a pair: nothing, or a rate
SourceTables(from_curr, to_curr) ==
    {EmptyRates} \cup {Key(from_curr, to_curr) :> r : r \in 1..MaxRate}

InitWallet ==
    /\ wallet \in {Wallet(code, 0).wallet : code \in Currencies}
    /\ wres = NoCall
    /\ portfolios_data = Store0
    /\ tres = NoCall
    /\ rates_data = EmptyRates
    /\ rates_file = EmptyRates
    /\ now = 0
    /\ rres = NoCall
    /\ portfolios_file = File0
    /\ procs = Procs0
    /\ pres = NoCall
    /\ registry = EmptyRegistry
    /\ cres = NoCall

InitTrade ==
    /\ wallet = Wallet0
    /\ wres = NoCall
    /\ portfolios_data = Store0
    /\ tres = NoCall
    /\ rates_data \in TradeTables
    /\ rates_file = rates_data
    /\ now = 0
    /\ rres = NoCall
    /\ portfolios_file = File0
    /\ procs = Procs0
    /\ pres = NoCall
    /\ registry = EmptyRegistry
    /\ cres = NoCall

\* the rate tables that price BTC, read at minute 0
PricedTables ==
    {Key("BTC", "USD") :> [rate |-> r, updated_at |-> isoformat(0)] : r \in 1..MaxRate}

\* trades while the clock runs: the rate data were loaded at minute 0
InitTradeClock ==
    /\ wallet = Wallet0
    /\ wres = NoCall
    /\ portfolios_data = Store0
    /\ tres = NoCall
    /\ rates_data \in PricedTables
    /\ rates_file = rates_data
    /\ now = 0
    /\ rres = NoCall
    /\ portfolios_file = File0
    /\ procs = Procs0
    /\ pres = NoCall
    /\ registry = EmptyRegistry
    /\ cres = NoCall

\* invocations of the program on the files of the initial store
InitInvocations ==
    /\ wallet = Wallet0
    /\ wres = NoCall
    /\ portfolios_data = Store0
    /\ tres = NoCall
    /\ rates_data \in PricedTables
    /\ rates_file = rates_data
    /\ now = 0
    /\ rres = NoCall
    /\ portfolios_file = File0
    /\ procs = Procs0
    /\ pres = NoCall
    /\ registry = EmptyRegistry
    /\ cres = NoCall

\* the codes of the trades the use cases do not look at: the base currency
\* and a code the registry does not hold
OddCurrencies == {"USD", "DOGE"}

\* rate data that price those codes, USD against itself included
OddTables ==
    UNION {[K -> {[rate |-> r, updated_at |-> isoformat(0)] : r \in 1..MaxRate}] :
           K \in SUBSET {Key(code, "USD") : code \in OddCurrencies}}

InitOddTrade ==
    /\ wallet = Wallet0
    /\ wres = NoCall
    /\ portfolios_data = Store0
    /\ tres = NoCall
    /\ rates_data \in OddTables
    /\ rates_file = rates_data
    /\ now = 0
    /\ rres = NoCall
    /\ portfolios_file = File0
    /\ procs = Procs0
    /\ pres = NoCall
    /\ registry = EmptyRegistry
    /\ cres = NoCall

\* a wallet that holds about 2^53
InitFloatWallet ==
    /\ wallet \in {Wallet("USD", b).wallet : b \in FloatsNearBig}
    /\ wres = NoCall
    /\ portfolios_data = Store0
    /\ tres = NoCall
    /\ rates_data = EmptyRates
    /\ rates_file = EmptyRates
    /\ now = 0
    /\ rres = NoCall
    /\ portfolios_file = File0
    /\ procs = Procs0
    /\ pres = NoCall
    /\ registry = EmptyRegistry
    /\ cres = NoCall

\* the store of one user whose USD wallet holds about 2^53
FloatStores ==
    {<< [user_id |-> 1, wallets |-> ("USD" :> Wallet_to_dict(Wallet("USD", b).wallet))] >> :
        b \in FloatsNearBig}

InitFloatTrade ==
    /\ wallet = Wallet0
    /\ wres = NoCall
    /\ portfolios_data \in FloatStores
    /\ tres = NoCall
    /\ rates_data \in PricedTables
    /\ rates_file = rates_data
    /\ now = 0
    /\ rres = NoCall
    /\ portfolios_file = File0
    /\ procs = Procs0
    /\ pres = NoCall
    /\ registry = EmptyRegistry
    /\ cres = NoCall

\* the module core/currencies.py after its import: nothing registered
InitCurrencies ==
    /\ wallet = Wallet0
    /\ wres = NoCall
    /\ portfolios_data = Store0
    /\ tres = NoCall
    /\ rates_data = EmptyRates
    /\ rates_file = EmptyRates
    /\ now = 0
    /\ rres = NoCall
    /\ portfolios_file = File0
    /\ procs = Procs0
    /\ pres = NoCall
    /\ registry = EmptyRegistry
    /\ cres = NoCall

\* the characters codes are made of: a capital, a small letter, a digit, a
\* punctuation mark, the space and the tab
Chars == {"A", "a", "1", "-", " ", "\t"}

\* every code of up to MaxCodeLen characters
Codes == UNION {[1..n -> Chars] : n \in 0..MaxCodeLen}

\* a code at hand, not yet given to the constructor
InitCode ==
    /\ wallet = Wallet0
    /\ wres = NoCall
    /\ portfolios_data = Store0
    /\ tres = NoCall
    /\ rates_data = EmptyRates
    /\ rates_file = EmptyRates
    /\ now = 0
    /\ rres = NoCall
    /\ portfolios_file = File0
    /\ procs = Procs0
    /\ pres = NoCall
    /\ registry = EmptyRegistry
    /\ cres \in {[op |-> "code", code |-> code] : code \in Codes}

InitRate ==
    /\ wallet = Wallet0
    /\ wres = NoCall
    /\ portfolios_data = Store0
    /\ tres = NoCall
    /\ rates_data \in {EmptyRates,
                       Key("BTC", "USD") :> [rate |-> 1, updated_at |-> Malformed]}
    /\ rates_file = rates_data
    /\ now = 0
    /\ rres = NoCall
    /\ portfolios_file = File0
    /\ procs = Procs0
    /\ pres = NoCall
    /\ registry = EmptyRegistry
    /\ cres = NoCall

----------------------------------------------------------------------------
(* The calls *)

Deposit(amount) ==
    \E r \in {deposit(wallet, amount)} :
    /\ r.wallet.balance <= MaxBalance \/ NearBig(r.wallet.balance)
    /\ wallet' = r.wallet
    /\ wres' = [op |-> "deposit", amount |-> amount, exc |-> r.exc, before |-> wallet]
    /\ UNCHANGED <<portfolios_data, tres, rates_data, rates_file, now, rres,
                 portfolios_file, procs,
                 registry, cres, pres>>

Withdraw(amount) ==
    \E r \in {withdraw(wallet, amount)} :
    /\ r.wallet.balance <= MaxBalance \/ NearBig(r.wallet.balance)
    /\ wallet' = r.wallet
    /\ wres' = [op |-> "withdraw", amount |-> amount, exc |-> r.exc, before |-> wallet]
    /\ UNCHANGED <<portfolios_data, tres, rates_data, rates_file, now, rres,
                 portfolios_file, procs,
                 registry, cres, pres>>

\* wallet.balance = value: the public setter, called from outside the wallet
SetBalance(value) ==
    \E r \in {set_balance(wallet, value)} :
    /\ r.wallet.balance <= MaxBalance \/ NearBig(r.wallet.balance)
    /\ wallet' = r.wallet
    /\ wres' = [op |-> "set_balance", amount |-> value, exc |-> r.exc, before |-> wallet]
    /\ UNCHANGED <<portfolios_data, tres, rates_data, rates_file, now, rres,
                 portfolios_file, procs,
                 registry, cres, pres>>

Bounded(store) ==
    \A i \in 1..Len(store) : \A code \in DOMAIN store[i].wallets :
        \/ store[i].wallets[code].balance <= MaxTradeBalance
        \/ NearBig(store[i].wallets[code].balance)

Buy(user_id, currency, amount) ==
    \E r \in {buy_currency(portfolios_data, rates_data, user_id, currency, amount)} :
    /\ Bounded(r.store)
    /\ portfolios_data' = r.store
    /\ tres' = [op |-> "buy", user_id |-> user_id, currency |-> currency,
                amount |-> amount, ret |-> r.ret, exc |-> r.exc, line |-> r.line,
                writes |-> r.writes, before |-> portfolios_data, at |-> now]
    /\ UNCHANGED <<wallet, wres, rates_data, rates_file, now, rres,
                 portfolios_file, procs,
                 registry, cres, pres>>

Sell(user_id, currency, amount) ==
    \E r \in {sell_currency(portfolios_data, rates_data, user_id, currency, amount)} :
    /\ Bounded(r.store)
    /\ portfolios_data' = r.store
    /\ tres' = [op |-> "sell", user_id |-> user_id, currency |-> currency,
                amount |-> amount, ret |-> r.ret, exc |-> r.exc, line |-> r.line,
                writes |-> r.writes, before |-> portfolios_data, at |-> now]
    /\ UNCHANGED <<wallet, wres, rates_data, rates_file, now, rres,
                 portfolios_file, procs,
                 registry, cres, pres>>

GetExchangeRate(from_curr, to_curr, mock_rates) ==
    \E r \in {get_exchange_rate(rates_data, mock_rates, from_curr, to_curr, now)} :
    /\ rates_data' = r.rates
    /\ rates_file' = IF r.saves > 0 THEN r.rates ELSE rates_file
    /\ rres' = [op |-> "get_exchange_rate", from_curr |-> from_curr,
                to_curr |-> to_curr, mock_rates |-> mock_rates, value |-> r.value, fetched |-> r.fetched,
                saves |-> r.saves, before |-> rates_data,
                file_before |-> rates_file, at |-> now]
    /\ UNCHANGED <<wallet, wres, portfolios_data, tres, now,
                 portfolios_file, procs,
                 registry, cres, pres>>

Tick ==
    /\ now < MaxNow
    /\ now' = now + 1
    /\ UNCHANGED <<wallet, wres, portfolios_data, tres, rates_data, rates_file, rres,
                 portfolios_file, procs,
                 registry, cres, pres>>

\* An invocation of the buy or sell command as the specification describes
\* it: load the store, make the trade on the loaded store, save the store when
\* the trade went through.  The steps call load_json, buy_currency /
\* sell_currency and save_json of the source; the commands of the program
\* itself stop before they load anything.

Jobs ==
    [op : {"buy", "sell"}, user_id : {1, 2}, currency : {"BTC"},
     amount : 1..MaxTradeAmount]

\* the command starts and loads data/portfolios.json
Load(p, job) ==
    /\ procs[p].pc = "idle"
    /\ \E r \in {load_json(portfolios_file)} :
        procs' = [procs EXCEPT ![p] =
                     [pc |-> IF Raised(r) THEN "failed" ELSE "loaded",
                      data |-> r.data, job |-> job]]
    /\ UNCHANGED <<wallet, wres, portfolios_data, tres, rates_data, rates_file, now,
                   rres, portfolios_file,
                 registry, cres, pres>>

\* the trade up to the withdraw of what is spent; a trade that returns False
\* or raises ends the command without a save
Debit(p) ==
    /\ procs[p].pc = "loaded"
    /\ \E r \in {run_trade(procs[p].job, procs[p].data, rates_data)} :
        /\ Bounded(r.store)
        /\ procs' = [procs EXCEPT ![p].pc = IF r.ret = "True" THEN "debited" ELSE "failed"]
    /\ UNCHANGED <<wallet, wres, portfolios_data, tres, rates_data, rates_file, now,
                   rres, portfolios_file,
                 registry, cres, pres>>

\* the deposit of what is received, and the record put back into the loaded store
Credit(p) ==
    /\ procs[p].pc = "debited"
    /\ \E r \in {run_trade(procs[p].job, procs[p].data, rates_data)} :
        procs' = [procs EXCEPT ![p].pc = "traded", ![p].data = r.store]
    /\ UNCHANGED <<wallet, wres, portfolios_data, tres, rates_data, rates_file, now,
                   rres, portfolios_file,
                 registry, cres, pres>>

SaveOpen(p) ==
    /\ procs[p].pc = "traded"
    /\ portfolios_file' = save_json_open(portfolios_file)
    /\ procs' = [procs EXCEPT ![p].pc = "writing"]
    /\ UNCHANGED <<wallet, wres, portfolios_data, tres, rates_data, rates_file, now,
                   rres,
                 registry, cres, pres>>

SaveClose(p) ==
    /\ procs[p].pc = "writing"
    /\ portfolios_file' = save_json_close(portfolios_file, procs[p].data)
    /\ procs' = [procs EXCEPT ![p].pc = "done"]
    /\ UNCHANGED <<wallet, wres, portfolios_data, tres, rates_data, rates_file, now,
                   rres,
                 registry, cres, pres>>

\* the process dies where it is
Crash(p) ==
    /\ procs[p].pc \in {"loaded", "debited", "traded", "writing"}
    /\ procs' = [procs EXCEPT ![p].pc = "crashed"]
    /\ UNCHANGED <<wallet, wres, portfolios_data, tres, rates_data, rates_file, now,
                   rres, portfolios_file,
                 registry, cres, pres>>

NextInvocations ==
    \E p \in ProcIds :
        \/ \E job \in Jobs : Load(p, job)
        \/ Debit(p)
        \/ Credit(p)
        \/ SaveOpen(p)
        \/ SaveClose(p)
        \/ Crash(p)

\* Portfolio.add_currency called on the portfolio object of a user
AddCurrency(user_id, currency_code) ==
    \E found \in {show_portfolio(portfolios_data, user_id)} :
    /\ found.value # {}
    /\ \E r \in {add_currency(Some(found.value), currency_code)} :
        pres' = [op |-> "add_currency", user_id |-> user_id, code |-> currency_code,
                 exc |-> r.exc, before |-> Some(found.value), dict |-> <<>>,
                 after |-> {r.portfolio}]
    /\ UNCHANGED <<wallet, wres, portfolios_data, tres, rates_data, rates_file, now,
                   rres, portfolios_file, procs, registry, cres>>

\* Portfolio.from_dict(portfolio.to_dict()) on the portfolio object of a user
RoundTrip(user_id) ==
    \E found \in {show_portfolio(portfolios_data, user_id)} :
    /\ found.value # {}
    /\ \E d \in {Portfolio_to_dict(Some(found.value))} :
       \E r \in {Portfolio_from_dict(d)} :
        pres' = [op |-> "round_trip", user_id |-> user_id, code |-> "",
                 exc |-> r.exc, before |-> Some(found.value), dict |-> d,
                 after |-> r.value]
    /\ UNCHANGED <<wallet, wres, portfolios_data, tres, rates_data, rates_file, now,
                   rres, portfolios_file, procs, registry, cres>>

NextPortfolio ==
    \/ \E user_id \in {1, 2}, currency \in Currencies \ {"USD"},
          amount \in 1..MaxTradeAmount :
        Buy(user_id, currency, amount) \/ Sell(user_id, currency, amount)
    \/ \E user_id \in {1, 2}, currency_code \in Currencies :
        AddCurrency(user_id, currency_code)
    \/ \E user_id \in {1, 2} : RoundTrip(user_id)

\* the registrations made so far, in their order
RegLog == IF cres.op \in {"none", "code"} THEN <<>> ELSE cres.log

\* Currency(name, code), through FiatCurrency or CryptoCurrency
NewCurrency(name, code) ==
    \E r \in {Currency(name, code)} :
    /\ cres' = [op |-> "Currency", name |-> name, code |-> code, exc |-> r.exc,
                value |-> r.value, before |-> registry, log |-> RegLog]
    /\ UNCHANGED <<wallet, wres, portfolios_data, tres, rates_data, rates_file, now,
                   rres, portfolios_file, procs, registry, pres>>

\* register_currency(currency)
RegisterCurrency(currency) ==
    /\ Len(RegLog) < MaxRegistrations
    /\ registry' = register_currency(registry, currency)
    /\ cres' = [op |-> "register_currency", name |-> currency.name,
                code |-> currency.code, exc |-> NoError, value |-> {currency},
                before |-> registry, log |-> Append(RegLog, currency)]
    /\ UNCHANGED <<wallet, wres, portfolios_data, tres, rates_data, rates_file, now,
                   rres, portfolios_file, procs, pres>>

\* get_currency(code)
GetCurrency(code) ==
    \E r \in {get_currency(registry, code)} :
    /\ cres' = [op |-> "get_currency", name |-> "", code |-> code, exc |-> r.exc,
                value |-> r.value, before |-> registry, log |-> RegLog]
    /\ UNCHANGED <<wallet, wres, portfolios_data, tres, rates_data, rates_file, now,
                   rres, portfolios_file, procs, registry, pres>>

\* the constructor called with the code at hand
ValidateCode ==
    /\ cres.op = "code"
    /\ NewCurrency("One", cres.code)

NextCode == ValidateCode

\* the currencies that are registered: two codes, two currencies for each
SomeCurrencies ==
    {Some(Currency(name, code).value) :
        name \in {"One", "Two"}, code \in {<<"A", "B">>, <<"B", "A">>}}

\* the codes that are looked up: every spelling of two letters
LookupCodes == [1..2 -> {"A", "B", "a", "b"}]

NextRegistry ==
    \/ \E currency \in SomeCurrencies : RegisterCurrency(currency)
    \/ \E code \in LookupCodes : GetCurrency(code)

NextWallet ==
    \/ \E amount \in MinAmount..MaxAmount : Deposit(amount) \/ Withdraw(amount)
    \/ \E value \in MinAmount..MaxBalance : SetBalance(value)

NextTrade ==
    \E user_id \in UserIds, currency \in Currencies,
       amount \in MinAmount..MaxTradeAmount :
        Buy(user_id, currency, amount) \/ Sell(user_id, currency, amount)

NextRate ==
    \/ Tick
    \/ \E from_curr \in RateCurrencies :
        \E to_curr \in RateCurrencies \ {from_curr} :
        \E mock_rates \in SourceTables(from_curr, to_curr) :
            GetExchangeRate(from_curr, to_curr, mock_rates)

NextTradeClock ==
    \/ Tick
    \/ \E user_id \in {1, 2}, amount \in 1..MaxTradeAmount :
        Buy(user_id, "BTC", amount) \/ Sell(user_id, "BTC", amount)

NextOddTrade ==
    \E user_id \in {1, 2}, currency \in OddCurrencies, amount \in 1..MaxTradeAmount :
        Buy(user_id, currency, amount) \/ Sell(user_id, currency, amount)

NextFloatWallet ==
    \E amount \in 1..MaxAmount : Deposit(amount) \/ Withdraw(amount)

NextFloatTrade ==
    \E amount \in 1..MaxTradeAmount : Buy(1, "BTC", amount) \/ Sell(1, "BTC", amount)

\* The Rate Source of the specification is an external service, for which
\* fetch_rate_from_parser is a stand-in with a table of its own.  What such a
\* source may answer for a pair: nothing, or any number, 0 and below included
AnySourceTables(from_curr, to_curr) ==
    {EmptyRates} \cup {Key(from_curr, to_curr) :> r : r \in Rates}

\* get_exchange_rate of the source, looking up against such a Rate Source
NextRateAnySource ==
    \/ Tick
    \/ \E from_curr \in RateCurrencies :
        \E to_curr \in RateCurrencies \ {from_curr} :
        \E mock_rates \in AnySourceTables(from_curr, to_curr) :
            GetExchangeRate(from_curr, to_curr, mock_rates)

\* lookups of the rate of a currency against itself
NextRateSame ==
    \/ Tick
    \/ \E code \in RateCurrencies :
        \E mock_rates \in SourceTables(code, code) :
            GetExchangeRate(code, code, mock_rates)

SpecWallet == InitWallet /\ [][NextWallet]_vars

SpecTrade == InitTrade /\ [][NextTrade]_vars

SpecRate == InitRate /\ [][NextRate]_vars

SpecTradeClock == InitTradeClock /\ [][NextTradeClock]_vars

SpecOddTrade == InitOddTrade /\ [][NextOddTrade]_vars

SpecFloatWallet == InitFloatWallet /\ [][NextFloatWallet]_vars

SpecFloatTrade == InitFloatTrade /\ [][NextFloatTrade]_vars

SpecRateSame == InitRate /\ [][NextRateSame]_vars

SpecCode == InitCode /\ [][NextCode]_vars

SpecRegistry == InitCurrencies /\ [][NextRegistry]_vars

SpecPortfolio == InitTradeClock /\ [][NextPortfolio]_vars

SpecRateAnySource == InitRate /\ [][NextRateAnySource]_vars

SpecInvocations == InitInvocations /\ [][NextInvocations]_vars

----------------------------------------------------------------------------
(* Wallet: deposit and withdraw *)

WalletCalled == wres.op \in {"deposit", "withdraw"}

\* C1: after every deposit or withdraw call, whatever the amount, the balance
\* is >= 0, and a call that failed left the balance as it was before the call.
C1_BalanceNonNegative ==
    /\ wallet.balance >= 0
    /\ (WalletCalled /\ wres.exc.type # "none") => wallet = wres.before

\* a withdrawal of more than a positive balance was refused
C1_Witness ==
    /\ wres.op = "withdraw"
    /\ wres.amount > wres.before.balance
    /\ wres.before.balance > 0
    /\ wres.exc.type = "InsufficientFundsError"

\* C6: withdraw(amount) fails with ValueError when amount <= 0, fails with
\* InsufficientFundsError(available = balance, required = amount, code = the
\* wallet's currency) when amount > balance, and otherwise, amount = balance
\* included, takes the whole amount off the balance; nothing else happens.
C6_Withdraw ==
    wres.op = "withdraw" =>
        LET b == wres.before.balance
            a == wres.amount
        IN  /\ a <= 0 => wres.exc = ValueError /\ wallet = wres.before
            /\ (a > 0 /\ a > b) =>
                  /\ wres.exc.type = "InsufficientFundsError"
                  /\ wres.exc.available = b
                  /\ wres.exc.required = a
                  /\ wres.exc.code = wres.before.currency_code
                  /\ wallet = wres.before
            /\ (a > 0 /\ a <= b) =>
                  /\ wres.exc = NoError
                  /\ wallet.balance = b - a
                  /\ wallet.currency_code = wres.before.currency_code

\* the whole of a positive balance was withdrawn
C6_Witness ==
    /\ wres.op = "withdraw"
    /\ wres.amount = wres.before.balance
    /\ wres.amount > 0
    /\ wres.exc = NoError
    /\ wallet.balance = 0

\* C7: deposit(amount) fails with ValueError and leaves the balance as it was
\* when amount <= 0, and adds exactly amount to the balance when amount > 0,
\* whatever the balance is.
C7_Deposit ==
    wres.op = "deposit" =>
        LET b == wres.before.balance
            a == wres.amount
        IN  /\ a <= 0 => wres.exc = ValueError /\ wallet = wres.before
            /\ a > 0 =>
                  /\ wres.exc = NoError
                  /\ wallet.balance = b + a
                  /\ wallet.currency_code = wres.before.currency_code

----------------------------------------------------------------------------
(* Trades: buy_currency and sell_currency *)

TradeCalled == tres.op \in {"buy", "sell"}

\* the place of the trading user's record in the store before the call
TraderIndex == first_index(tres.before, tres.user_id)

\* the balance a wallets dictionary holds for a code, 0 when it has no wallet
BalanceIn(wallets, code) ==
    IF code \in DOMAIN wallets THEN wallets[code].balance ELSE 0

\* the rate of the traded currency against USD in the rate data
TradeRate == rates_data[Key(tres.currency, "USD")].rate

\* C2: a buy_currency or sell_currency call that returns False or raises, for
\* whatever reason, leaves every record of the store as it was before the
\* call (so no wallet is created) and assigns no record of the store.
C2_FailedTradeChangesNothing ==
    (TradeCalled /\ tres.ret # "True") =>
        /\ portfolios_data = tres.before
        /\ tres.writes = <<>>

\* a sale failed at the credit, after the debit and after the USD wallet was
\* added to the portfolio in memory
C2_Witness ==
    /\ tres.op = "sell"
    /\ tres.ret = "raise"
    /\ tres.line = 152
    /\ portfolios_data = tres.before

\* C3: after a successful Buy of amount a > 0 of a currency C other than USD at
\* rate r, the stored USD balance of the user is exactly the previous one minus
\* a * r and the stored C balance is exactly the previous one (0 without a
\* wallet) plus a, whatever the balances are.
C3_BuyConservesValue ==
    (tres.op = "buy" /\ tres.ret = "True" /\ tres.amount > 0 /\ tres.currency # "USD") =>
        LET old == tres.before[TraderIndex].wallets
            new == portfolios_data[TraderIndex].wallets
        IN  /\ "USD" \in DOMAIN new
            /\ tres.currency \in DOMAIN new
            /\ new["USD"].balance = BalanceIn(old, "USD") - tres.amount * TradeRate
            /\ new[tres.currency].balance
                  = BalanceIn(old, tres.currency) + tres.amount

\* C4: after a successful Sell of amount a > 0 of a currency C other than USD
\* at rate r, the stored C balance is exactly the previous one minus a and the
\* stored USD balance is exactly the previous one (0 when the sale created the
\* wallet) plus a * r, whatever the balances are.
C4_SellConservesValue ==
    (tres.op = "sell" /\ tres.ret = "True" /\ tres.amount > 0 /\ tres.currency # "USD") =>
        LET old == tres.before[TraderIndex].wallets
            new == portfolios_data[TraderIndex].wallets
        IN  /\ "USD" \in DOMAIN new
            /\ tres.currency \in DOMAIN new
            /\ new[tres.currency].balance = old[tres.currency].balance - tres.amount
            /\ new["USD"].balance = BalanceIn(old, "USD") + tres.amount * TradeRate

\* C5: a successful Buy or Sell assigns exactly one record of the store, the
\* trading user's, with the portfolio after both the debit and the credit, and
\* leaves every other record as it was; a failed trade assigns none.
C5_OneWritePerTrade ==
    TradeCalled =>
        IF tres.ret = "True"
        THEN /\ tres.writes = <<TraderIndex>>
             /\ TraderIndex \in 1..Len(tres.before)
             /\ Len(portfolios_data) = Len(tres.before)
             /\ portfolios_data[TraderIndex].user_id = tres.user_id
             /\ \A j \in 1..Len(tres.before) :
                   j # TraderIndex => portfolios_data[j] = tres.before[j]
             /\ LET old == tres.before[TraderIndex].wallets
                    new == portfolios_data[TraderIndex].wallets
                IN  tres.currency # "USD" =>
                      /\ BalanceIn(new, "USD") # BalanceIn(old, "USD")
                      /\ BalanceIn(new, tres.currency) # BalanceIn(old, tres.currency)
        ELSE /\ tres.writes = <<>>
             /\ portfolios_data = tres.before

\* the second record of the store was replaced by a trade of its user, the
\* first one kept
C5_Witness ==
    /\ TradeCalled
    /\ tres.ret = "True"
    /\ tres.writes = <<2>>
    /\ portfolios_data[2] # tres.before[2]
    /\ portfolios_data[1] = tres.before[1]

----------------------------------------------------------------------------
(* The rate cache: get_exchange_rate *)

RateCalled == rres.op = "get_exchange_rate"

RateKey == Key(rres.from_curr, rres.to_curr)

\* the call found an entry for its pair, with a timestamp that parses
RateCached == RateKey \in DOMAIN rres.before /\ rres.before[RateKey].updated_at.iso

\* the age of that entry at the call
RateAge == rres.at - rres.before[RateKey].updated_at.at

\* the Parser Service had no rate for the pair
SourceFailed == RateKey \notin DOMAIN rres.mock_rates

\* C8: when the cached entry of the pair is older than the freshness window
\* and the Rate Source fails, get_exchange_rate returns None, not the entry.
C8_StaleNeverReturned ==
    (RateCalled /\ RateCached /\ RateAge > MaxAgeMinutes /\ SourceFailed) =>
        rres.value = {}

\* a call six minutes after the fetch found the source failing
C8_Witness ==
    /\ RateCalled
    /\ RateCached
    /\ RateAge = MaxAgeMinutes + 1
    /\ SourceFailed
    /\ rres.value = {}

\* C9: an entry whose age equals the freshness window is fresh and is returned
\* from the cache; an entry one unit of time older is stale and the Rate
\* Source is called.
C9_FreshnessBoundary ==
    (RateCalled /\ RateCached) =>
        /\ RateAge = MaxAgeMinutes =>
              rres.value = {rres.before[RateKey]} /\ ~rres.fetched
        /\ RateAge = MaxAgeMinutes + 1 => rres.fetched

\* an entry exactly as old as the window was returned without a fetch
C9_Witness ==
    /\ RateCalled
    /\ RateCached
    /\ RateAge = MaxAgeMinutes
    /\ ~rres.fetched
    /\ ~SourceFailed

\* C10: when the pair has a cached entry whose age is within the freshness
\* window, get_exchange_rate returns that entry, does not call the Rate
\* Source and changes neither the cache nor data/rates.json.
C10_FreshHitChangesNothing ==
    (RateCalled /\ RateCached /\ RateAge <= MaxAgeMinutes) =>
        /\ rres.value = {rres.before[RateKey]}
        /\ ~rres.fetched
        /\ rres.saves = 0
        /\ rates_data = rres.before
        /\ rates_file = rres.file_before

\* a fresh entry was returned while the source held another rate for the pair
C10_Witness ==
    /\ RateCalled
    /\ RateCached
    /\ RateAge \in 1..MaxAgeMinutes
    /\ ~SourceFailed
    /\ rres.mock_rates[RateKey] # rres.before[RateKey].rate
    /\ rres.value = {rres.before[RateKey]}

----------------------------------------------------------------------------
(* The refresh of the rate cache *)

\* the pair of the last lookup, reversed
ReversedKey == Key(rres.to_curr, rres.from_curr)

\* the last lookup found no entry it could use, and the source answered
Refetched ==
    /\ RateCalled
    /\ ~(RateCached /\ RateAge <= MaxAgeMinutes)
    /\ ~SourceFailed

\* the entry the source gave to the last lookup
FetchedEntry == [rate |-> rres.mock_rates[RateKey], updated_at |-> isoformat(rres.at)]

\* C11: when the entry of the pair is absent or stale and the source answers,
\* the lookup puts the fetched entry under exactly that pair, saves the cache
\* once, returns the fetched entry and leaves the entry of every other pair,
\* the reversed pair included, as it was.
C11_RefetchOverwritesOnePair ==
    Refetched =>
        /\ rres.fetched
        /\ rres.value = {FetchedEntry}
        /\ DOMAIN rates_data = DOMAIN rres.before \cup {RateKey}
        /\ rates_data[RateKey] = FetchedEntry
        /\ \A key \in DOMAIN rres.before \ {RateKey} : rates_data[key] = rres.before[key]
        /\ rres.saves = 1
        /\ rates_file = rates_data

\* a stale entry is overwritten while the reversed pair sits in the cache
C11_Witness ==
    /\ Refetched
    /\ RateCached
    /\ rates_data[RateKey] # rres.before[RateKey]
    /\ ReversedKey \in DOMAIN rres.before
    /\ rates_data[ReversedKey] = rres.before[ReversedKey]
    /\ rates_data[ReversedKey] # rates_data[RateKey]

----------------------------------------------------------------------------
(* The price of a trade and the freshness window *)

\* the entry that priced the last trade
TradeEntry == rates_data[Key(tres.currency, "USD")]

\* the entries of the table of fetch_rate_from_parser for the pairs X_USD, the
\* pairs a trade is priced with, in hundredths of a unit (59337.21, 3731.34)
ParserRatesUSD == (Key("BTC", "USD") :> 5933721) @@ (Key("ETH", "USD") :> 373134)

\* what get_exchange_rate yields for the pair of the last trade at the time of
\* the trade: the cached entry while it is fresh, and the entry fetched from
\* the table of fetch_rate_from_parser once it is not
TradeLookup ==
    get_exchange_rate(rates_data, ParserRatesUSD, tres.currency, "USD", tres.at)

\* C12: a committed buy or sell is priced with what get_exchange_rate yields
\* for (currency, USD) at the time of the trade: the entry that priced it is
\* not older than the freshness window, and a trade whose pair has no fresh
\* entry and cannot be fetched again is rejected.
C12_TradePricedWithFreshRate ==
    (TradeCalled /\ tres.ret = "True") =>
        /\ TradeLookup.value = {TradeEntry}
        /\ tres.at - TradeEntry.updated_at.at <= MaxAgeMinutes

----------------------------------------------------------------------------
(* Invocations that run side by side, and invocations that die *)

\* the store after the trades of invocation p, then of invocation q, made one
\* after the other on the initial store
Serial(p, q) ==
    run_trade(procs[q].job, run_trade(procs[p].job, Store0, rates_data).store,
              rates_data).store

\* C13: when two invocations each load the store, make a successful trade and
\* save the store, then however their steps interleave the saved store holds
\* the effects of both trades.
C13_NoLostUpdate ==
    (\A p \in ProcIds : procs[p].pc = "done") =>
        /\ portfolios_file.whole
        /\ portfolios_file.text \in {Serial(1, 2), Serial(2, 1)}

\* C14: when the process dies at any point of a trade, the saved store is
\* afterwards entirely the store before the trade or entirely the store after
\* it, and never a file written in part.
C14_CrashLeavesWholeStore ==
    \A p \in ProcIds :
        (/\ procs[p].pc = "crashed"
         /\ \A q \in ProcIds \ {p} : procs[q].pc = "idle") =>
            /\ portfolios_file.whole
            /\ portfolios_file.text \in
                   {Store0, run_trade(procs[p].job, Store0, rates_data).store}

----------------------------------------------------------------------------
(* A sell of a currency the portfolio does not hold *)

\* the last call was a sell, by a user with a portfolio, of a currency for
\* which the portfolio has no wallet
SoldWithoutWallet ==
    /\ tres.op = "sell"
    /\ tres.amount > 0
    /\ TraderIndex # 0
    /\ tres.currency \notin DOMAIN tres.before[TraderIndex].wallets

\* how a sell of more than the wallet holds ends, as the caller sees it
InsufficientOutcome(store, user_id, currency) ==
    LET i == first_index(store, user_id)
        r == sell_currency(store, rates_data, user_id, currency,
                           store[i].wallets[currency].balance + 1)
    IN  <<r.ret, r.exc>>

\* C15: a sell of a currency for which the portfolio has no wallet ends in a
\* way the caller can tell from the end of a sell on a wallet that holds too
\* little; it creates no wallet and writes nothing.
C15_NoHoldingDistinguishable ==
    SoldWithoutWallet =>
        /\ \A i \in 1..Len(tres.before) : \A code \in DOMAIN tres.before[i].wallets :
               <<tres.ret, tres.exc>> #
                   InsufficientOutcome(tres.before, tres.before[i].user_id, code)
        /\ portfolios_data = tres.before
        /\ tres.writes = <<>>

----------------------------------------------------------------------------
(* Trades of a code outside the registry, and of the base currency *)

\* C16: a buy or sell of a code the registry does not hold fails with
\* CurrencyNotFoundError before any wallet is changed or created, also when
\* the rate data hold an entry for the code against USD.
C16_UnknownCurrencyRejected ==
    (TradeCalled /\ get_currency(Registry, Spell(tres.currency)).value = {}) =>
        /\ tres.ret = "raise"
        /\ tres.exc.type = "CurrencyNotFoundError"
        /\ portfolios_data = tres.before

\* C17: a buy or sell of USD is rejected or leaves every balance of the
\* portfolio as it was, whatever the rate data hold, a USD_USD entry with a
\* rate other than 1 included.
C17_BaseCurrencyTradeNeutral ==
    (TradeCalled /\ tres.currency = "USD") =>
        \/ tres.ret # "True"
        \/ \A code \in DOMAIN portfolios_data[TraderIndex].wallets
                         \cup DOMAIN tres.before[TraderIndex].wallets :
               BalanceIn(portfolios_data[TraderIndex].wallets, code)
                   = BalanceIn(tres.before[TraderIndex].wallets, code)

----------------------------------------------------------------------------
(* Round trips *)

\* C19: for every balance b >= 0 and every amount x > 0, deposit(x) followed
\* by withdraw(x) both succeed and leave the balance exactly b.
C19_DepositWithdrawRoundTrip ==
    [][(/\ wres.op = "deposit"
        /\ ~Raised(wres)
        /\ wres'.op = "withdraw"
        /\ wres'.amount = wres.amount
        /\ wres'.before = wallet)
       => (/\ ~Raised(wres')
           /\ wallet'.balance = wres.before.balance)]_vars

\* C18: a buy of an amount of a currency other than USD that succeeds,
\* followed by a sell of the same amount of the currency at the same rate,
\* brings the USD balance and the balance of the currency back to what they
\* were before the buy; a wallet the buy created stays, holding 0.
C18_BuySellRoundTrip ==
    [][(/\ tres.op = "buy"
        /\ tres.ret = "True"
        /\ tres.currency # "USD"
        /\ tres'.op = "sell"
        /\ tres'.user_id = tres.user_id
        /\ tres'.currency = tres.currency
        /\ tres'.amount = tres.amount
        /\ tres'.before = portfolios_data)
       => (/\ tres'.ret = "True"
           /\ tres.currency \in DOMAIN portfolios_data'[TraderIndex].wallets
           /\ \A code \in {"USD", tres.currency} :
                  BalanceIn(portfolios_data'[TraderIndex].wallets, code)
                      = BalanceIn(tres.before[TraderIndex].wallets, code))]_vars

----------------------------------------------------------------------------
(* The rate of a currency against itself *)

\* C20: get_exchange_rate(c, c) returns an entry with rate 1 without writing
\* the cache and without calling the source.
C20_SameCurrencyRateIsOne ==
    (RateCalled /\ rres.from_curr = rres.to_curr) =>
        /\ rres.value # {}
        /\ \A entry \in rres.value : entry.rate = 1
        /\ ~rres.fetched
        /\ rres.saves = 0
        /\ rates_data = rres.before
        /\ rates_file = rres.file_before

----------------------------------------------------------------------------
(* The currency registry *)

\* the places in the log of the registrations under a code
RegisteredAt(key) == {i \in DOMAIN RegLog : RegLog[i].code = key}

\* the currency registered last under a code
LastRegistered(key) ==
    RegLog[CHOOSE i \in RegisteredAt(key) : \A j \in RegisteredAt(key) : j <= i]

\* C21: after any sequence of register_currency calls, get_currency(code)
\* returns the currency registered last under the upper-case form of the code
\* and raises CurrencyNotFoundError exactly when none was registered under
\* that form; registering a currency a second time leaves the registry as it
\* was after the first time.
C21_LookupFindsLastRegistered ==
    /\ cres.op = "get_currency" =>
        IF RegisteredAt(upper(cres.code)) = {}
        THEN cres.exc.type = "CurrencyNotFoundError" /\ cres.value = {}
        ELSE cres.exc = NoError /\ cres.value = {LastRegistered(upper(cres.code))}
    /\ (/\ cres.op = "register_currency"
        /\ Len(RegLog) >= 2
        /\ RegLog[Len(RegLog)] = RegLog[Len(RegLog) - 1]) =>
            registry = cres.before

\* a lookup in small letters finds the second of two currencies registered
\* under the code
C21_Witness ==
    /\ cres.op = "get_currency"
    /\ cres.code # upper(cres.code)
    /\ Cardinality(RegisteredAt(upper(cres.code))) >= 2
    /\ \E i \in RegisteredAt(upper(cres.code)) :
           RegLog[i] # LastRegistered(upper(cres.code))
    /\ cres.value = {LastRegistered(upper(cres.code))}

\* C22: the validation of Currency.__init__ accepts a code exactly when it
\* has 2 to 5 characters and each of them is a capital letter A-Z; a code with
\* a digit, a punctuation mark, a small letter or any white space is rejected.
C22_CodeIsCapitalLetters ==
    cres.op = "Currency" => (~Raised(cres) <=> valid_code_letters(cres.code))

----------------------------------------------------------------------------
(* Portfolio objects and their stored form *)

\* C23: for every portfolio p, Portfolio.from_dict(p.to_dict()) has the
\* user_id of p, the currency codes of p and, for every wallet, the balance
\* it has in p.
C23_PortfolioRoundTrip ==
    pres.op = "round_trip" =>
        /\ ~Raised(pres)
        /\ \A q \in pres.after :
            /\ q.user_id = pres.before.user_id
            /\ DOMAIN q.wallets = DOMAIN pres.before.wallets
            /\ \A code \in DOMAIN q.wallets :
                /\ q.wallets[code].currency_code = pres.before.wallets[code].currency_code
                /\ q.wallets[code].balance = pres.before.wallets[code].balance
        /\ pres.after # {}

\* the round trip of a portfolio a trade has changed: two wallets, one
\* created by the trade, with balances above 0
C23_Witness ==
    /\ pres.op = "round_trip"
    /\ pres.after # {}
    /\ Cardinality(DOMAIN pres.before.wallets) >= 2
    /\ \A code \in DOMAIN pres.before.wallets : pres.before.wallets[code].balance > 0
    /\ DOMAIN pres.before.wallets # DOMAIN Store0[first_index(Store0, pres.user_id)].wallets

----------------------------------------------------------------------------
(* The funds a buy needs *)

\* the last call was a buy of an amount above 0 by a user with a portfolio
BuyAsked == tres.op = "buy" /\ tres.amount > 0 /\ TraderIndex # 0

\* the rate data price the currency of the last trade
RateAvailable == Key(tres.currency, "USD") \in DOMAIN rates_data

\* the wallets of the trading user before the call
WalletsBefore == tres.before[TraderIndex].wallets

\* amount * rate of the last trade
TradeCost == usd_cost(tres.amount, TradeRate)

\* C24: a buy (of an amount above 0, priced at a rate above 0 when priced at
\* all) is committed exactly when a rate for the pair is there, a USD wallet
\* exists and holds at least cost = amount * rate.  A buy whose cost equals
\* the USD balance succeeds and leaves 0 USD; a buy with no USD wallet or with
\* less USD than the cost is rejected at the check of the funds.
C24_BuyNeedsFunds ==
    (BuyAsked /\ (RateAvailable => TradeRate > 0)) =>
        /\ tres.ret = "True" <=>
               /\ RateAvailable
               /\ "USD" \in DOMAIN WalletsBefore
               /\ WalletsBefore["USD"].balance >= TradeCost
        /\ (/\ RateAvailable
            /\ "USD" \in DOMAIN WalletsBefore
            /\ WalletsBefore["USD"].balance = TradeCost) =>
               /\ tres.ret = "True"
               /\ portfolios_data[TraderIndex].wallets["USD"].balance = 0
        /\ (/\ RateAvailable
            /\ \/ "USD" \notin DOMAIN WalletsBefore
               \/ WalletsBefore["USD"].balance < TradeCost) =>
               /\ tres.ret = "False"
               /\ tres.exc = NoError
               /\ tres.line = 89
               /\ portfolios_data = tres.before

\* a buy that costs all the USD there is
C24_Witness ==
    /\ BuyAsked
    /\ RateAvailable
    /\ TradeRate > 0
    /\ "USD" \in DOMAIN WalletsBefore
    /\ WalletsBefore["USD"].balance = TradeCost
    /\ tres.ret = "True"
    /\ portfolios_data[TraderIndex].wallets["USD"].balance = 0

----------------------------------------------------------------------------
(* Trades of an amount that is not above 0 *)

\* C25: a buy or sell with amount <= 0 is rejected as an invalid amount, for
\* every portfolio and rate, and changes no balance and no record of the store.
C25_InvalidAmountRejected ==
    (TradeCalled /\ tres.amount <= 0 /\ TraderIndex # 0 /\ RateAvailable) =>
        /\ tres.ret = "raise"
        /\ tres.exc.type = "ValueError"
        /\ portfolios_data = tres.before
        /\ tres.writes = <<>>

----------------------------------------------------------------------------
(* The creation of wallets *)

\* the wallets a record of the store has gained in the last call
NewWallets(i) == DOMAIN portfolios_data[i].wallets \ DOMAIN tres.before[i].wallets

\* the currency the last trade credits, and how much of it
CreditedCurrency == IF tres.op = "buy" THEN tres.currency ELSE "USD"

CreditedAmount ==
    IF tres.op = "buy" THEN tres.amount ELSE usd_revenue(tres.amount, TradeRate)

\* C26: a wallet appears in the store only through a successful trade that
\* credits its currency (the bought currency in a buy, USD in a sell), in the
\* record of the trading user; it is created with balance 0 and then holds
\* what the trade credits.  No failed trade adds a wallet.
C26_WalletsCreatedOnCredit ==
    TradeCalled =>
        /\ Len(portfolios_data) = Len(tres.before)
        /\ \A i \in 1..Len(portfolios_data) : \A code \in NewWallets(i) :
            /\ tres.ret = "True"
            /\ i = TraderIndex
            /\ code = CreditedCurrency
            /\ portfolios_data[i].wallets[code].balance = CreditedAmount

\* a buy of a currency the user never held
C26_Witness ==
    /\ tres.op = "buy"
    /\ tres.ret = "True"
    /\ NewWallets(TraderIndex) = {tres.currency}
    /\ portfolios_data[TraderIndex].wallets[tres.currency].balance = tres.amount

----------------------------------------------------------------------------
(* One wallet per currency *)

\* C27: a portfolio holds at most one wallet per code.  add_currency for a
\* code that has a wallet raises and leaves the wallet and its balance as they
\* were, and a buy of a currency the user holds adds to the wallet there is:
\* no wallet is created and none is reset.
C27_OneWalletPerCurrency ==
    /\ (pres.op = "add_currency" /\ pres.code \in DOMAIN pres.before.wallets) =>
        /\ pres.exc = ValueError
        /\ pres.after = {pres.before}
    /\ (pres.op = "add_currency" /\ pres.code \notin DOMAIN pres.before.wallets) =>
        /\ pres.exc = NoError
        /\ \A q \in pres.after :
            /\ DOMAIN q.wallets = DOMAIN pres.before.wallets \cup {pres.code}
            /\ \A code \in DOMAIN pres.before.wallets :
                   q.wallets[code] = pres.before.wallets[code]
    /\ (/\ tres.op = "buy"
        /\ tres.ret = "True"
        /\ tres.currency \in DOMAIN WalletsBefore) =>
        /\ DOMAIN portfolios_data[TraderIndex].wallets = DOMAIN WalletsBefore
        /\ portfolios_data[TraderIndex].wallets[tres.currency].balance
               = WalletsBefore[tres.currency].balance + tres.amount

\* add_currency refused for a wallet that holds something, after a buy that
\* added to a wallet that held something
C27_Witness ==
    /\ pres.op = "add_currency"
    /\ pres.code \in DOMAIN pres.before.wallets
    /\ pres.before.wallets[pres.code].balance > 0
    /\ pres.exc = ValueError
    /\ tres.op = "buy"
    /\ tres.ret = "True"
    /\ tres.currency \in DOMAIN WalletsBefore
    /\ WalletsBefore[tres.currency].balance > 0

----------------------------------------------------------------------------
(* The rates the cache holds *)

----------------------------------------------------------------------------
(* Balances in the store *)

\* every balance of every record of a store is >= 0
NonNegative(store) ==
    \A i \in 1..Len(store) : \A code \in DOMAIN store[i].wallets :
        store[i].wallets[code].balance >= 0

\* C29: starting from a store whose balances are all >= 0, after any
\* sequence of buy_currency and sell_currency calls, successful or failed,
\* every balance of every record of the store is >= 0.
C29_StoredBalancesNonNegative ==
    /\ NonNegative(portfolios_data)
    /\ TradeCalled => NonNegative(tres.before)

\* trades have emptied a wallet, and the last call, at a rate above 0, failed
C29_Witness ==
    /\ TradeCalled
    /\ tres.ret # "True"
    /\ RateAvailable
    /\ TradeRate > 0
    /\ portfolios_data # Store0
    /\ \E i \in 1..Len(portfolios_data) : \E code \in DOMAIN portfolios_data[i].wallets :
           portfolios_data[i].wallets[code].balance = 0

----------------------------------------------------------------------------
(* A lookup that finds no rate *)

\* C30: a get_exchange_rate call that ends without a rate (the entry absent
\* or stale, the source failing) leaves the cache in memory and the saved
\* cache as they were: the stale entry is neither removed nor overwritten and
\* nothing is written.
C30_UnavailableChangesNothing ==
    (RateCalled /\ ~(RateCached /\ RateAge <= MaxAgeMinutes) /\ SourceFailed) =>
        /\ rres.value = {}
        /\ rates_data = rres.before
        /\ rates_file = rres.file_before
        /\ rres.saves = 0

\* the source fails for a pair whose entry is stale: the entry stays
C30_Witness ==
    /\ RateCalled
    /\ RateCached
    /\ RateAge > MaxAgeMinutes
    /\ SourceFailed
    /\ rres.value = {}
    /\ RateKey \in DOMAIN rates_data
    /\ rates_data[RateKey] = rres.before[RateKey]

----------------------------------------------------------------------------
(* The frame of a trade *)

\* the wallets of the trader a trade of tres.currency may touch
TradedCodes == {tres.currency, "USD"}

\* the trader's record after the call
RecordAfter == portfolios_data[TraderIndex]

\* C31: a buy or sale of currency C that returned True changed only the C
\* wallet and the USD wallet of the trader's portfolio: the record keeps its
\* user_id, and every other wallet it held is still there with the balance
\* it had.
C31_TradeTouchesTwoWallets ==
    (TradeCalled /\ tres.ret = "True") =>
        /\ TraderIndex # 0
        /\ Len(portfolios_data) = Len(tres.before)
        /\ RecordAfter.user_id = tres.before[TraderIndex].user_id
        /\ RecordAfter.user_id = tres.user_id
        /\ DOMAIN RecordAfter.wallets \ TradedCodes = DOMAIN WalletsBefore \ TradedCodes
        /\ \A code \in DOMAIN WalletsBefore \ TradedCodes :
            /\ RecordAfter.wallets[code].balance = WalletsBefore[code].balance
            /\ RecordAfter.wallets[code].currency_code = WalletsBefore[code].currency_code

\* a trade went through for a trader who held a third currency with something
\* in it, and both wallets of the trade changed
C31_Witness ==
    /\ TradeCalled /\ tres.ret = "True"
    /\ \E code \in DOMAIN WalletsBefore \ TradedCodes : WalletsBefore[code].balance > 0
    /\ BalanceIn(RecordAfter.wallets, tres.currency) # BalanceIn(WalletsBefore, tres.currency)
    /\ BalanceIn(RecordAfter.wallets, "USD") # BalanceIn(WalletsBefore, "USD")

----------------------------------------------------------------------------
(* Trades of a user without a portfolio record *)

\* no record of the store carries user_id
NoRecord(store, user_id) ==
    \A i \in 1..Len(store) : store[i].user_id # user_id

\* C32: buy_currency and sell_currency called for a user_id that has no
\* portfolio record in the store return False, add no record for that user
\* and leave the store as it was, whatever the currency and the amount.
C32_NoPortfolioNoTrade ==
    (TradeCalled /\ NoRecord(tres.before, tres.user_id)) =>
        /\ tres.ret = "False"
        /\ tres.exc = NoError
        /\ tres.writes = <<>>
        /\ NoRecord(portfolios_data, tres.user_id)
        /\ portfolios_data = tres.before

\* a user without a record tried to buy a priced currency, after the trades
\* of other users had changed the store
C32_Witness ==
    /\ TradeCalled /\ NoRecord(tres.before, tres.user_id)
    /\ tres.op = "buy" /\ tres.amount > 0
    /\ RateAvailable
    /\ tres.before # Store0
    /\ tres.ret = "False"

====
